---- MODULE Spec2Model ----
(***************************************************************************)
(* A model of prepare.go (package whoisparser): Prepare and the twelve     *)
(* per-registry transformers it dispatches to.                             *)
(*                                                                         *)
(* A Go string is modelled as a sequence of atoms.  An atom is either one  *)
(* punctuation or white-space character (":", ",", ".", " ", "\n", ...)    *)
(* or one maximal run of letters and digits (a word such as "Registrant"). *)
(* Every string operation of the code (Split, TrimSpace, HasPrefix,        *)
(* Replace, the regular expressions) is computed on these sequences as the *)
(* Go library computes it on bytes; the literals of the code are written   *)
(* atom by atom.  The loop of a transformer is one action per line.        *)
(***************************************************************************)
EXTENDS Integers, Sequences, FiniteSets, TLC

VARIABLES
    input,        \* the argument of Prepare
    pc,           \* "start", the running transformer, "ch2", "done", "panic"
    dialect,      \* strings.ToLower(m[3]), or <<>> when searchDomain found nothing
    lines,        \* strings.Split(text, "\n") of the running loop
    pos,          \* index in lines of the next line the loop takes
    token,        \* token (EDU, INT, MO, HK, TW, FR, JP), topToken (IT)
    index,        \* index (EDU, TW)
    result,       \* result
    newBlock,     \* newBlock (FR)
    addressToken, \* addressToken (HK)
    subToken,     \* subToken (IT)
    prefixToken,  \* prefixToken (JP)
    hdls,         \* hdls (FR): role -> handle, a function on the recorded roles
    results,      \* results (CH, second loop)
    fault,        \* the run-time panic that ended Prepare, "" when none
    earlier       \* what the earlier calls of Prepare on this text returned

vars == <<input, pc, dialect, lines, pos, token, index, result, newBlock,
          addressToken, subToken, prefixToken, hdls, results, fault, earlier>>

(***************************************************************************)
(* Bounds of the model.                                                    *)
(***************************************************************************)
\* the longest body (lines after the domain line) of a general input
MaxLines == 3
\* the longest body of the inputs that fill a positional block (EDU, TW)
MaxBlock == 6
\* the longest body of the inputs that correlate roles and handles (FR)
MaxRoles == 4

(***************************************************************************)
(* The strings package, on sequences of atoms.                             *)
(***************************************************************************)
Punct == {" ", "\n", "\r", "\t", ":", ",", ".", "(", ")", "[", "]", "-",
          "*", "'", "#", "@", "/"}

\* the words of the model's alphabet that hold a digit
Numerals == {"1", "123", "2020", "H1", "H2"}

\* unicode.IsSpace on the alphabet
IsSpace(c) == c \in {" ", "\n", "\r", "\t"}

\* [a-z] under (?i): a word without digits
IsAlpha(c) == c \notin Punct /\ c \notin Numerals

\* unicode.ToLower on the words of the alphabet that hold capitals
LowerAtom(c) ==
    CASE c \in {"Domain", "DOMAIN"} -> "domain"
      [] c \in {"Name", "NAME"} -> "name"
      [] c = "UK" -> "uk"
      [] c = "COM" -> "com"
      [] c = "RU" -> "ru"
      [] c = "SU" -> "su"
      [] c = "JP" -> "jp"
      [] c = "EDU" -> "edu"
      [] c = "CH" -> "ch"
      [] c = "Holder" -> "holder"
      [] c = "HOLDER" -> "holder"
      [] c = "Technical" -> "technical"
      [] c = "Registrar" -> "registrar"
      [] c = "DNSSEC" -> "dnssec"
      [] c = "First" -> "first"
      [] c = "Contact" -> "contact"
      [] c = "Servers" -> "servers"
      [] c = "Registration" -> "registration"
      [] c = "Date" -> "date"
      [] c = "FR" -> "fr"
      [] OTHER -> c

ToLower(s) == [i \in 1..Len(s) |-> LowerAtom(s[i])]

RECURSIVE TrimLeft(_)
TrimLeft(s) == IF s # <<>> /\ IsSpace(Head(s)) THEN TrimLeft(Tail(s)) ELSE s

RECURSIVE TrimRight(_)
TrimRight(s) ==
    IF s # <<>> /\ IsSpace(s[Len(s)])
    THEN TrimRight(SubSeq(s, 1, Len(s) - 1))
    ELSE s

TrimSpace(s) == TrimRight(TrimLeft(s))

HasPrefix(s, p) == Len(p) <= Len(s) /\ SubSeq(s, 1, Len(p)) = p

HasSuffix(s, p) == Len(p) <= Len(s) /\ SubSeq(s, Len(s) - Len(p) + 1, Len(s)) = p

\* strings.Index, 1-based; 0 when sub does not occur (Go: -1)
Index(s, sub) ==
    LET at == {i \in 1..(Len(s) - Len(sub) + 1) : SubSeq(s, i, i + Len(sub) - 1) = sub}
    IN  IF at = {} THEN 0 ELSE CHOOSE i \in at : \A j \in at : i <= j

Contains(s, sub) == Index(s, sub) # 0

\* the text after the first n atoms: s[n:]
From(s, n) == SubSeq(s, n + 1, Len(s))

RECURSIVE Split(_, _)
Split(s, sep) ==
    LET i == Index(s, sep)
    IN  IF i = 0 THEN <<s>>
        ELSE <<SubSeq(s, 1, i - 1)>> \o Split(From(s, i + Len(sep) - 1), sep)

\* strings.SplitN(s, sep, 2)
SplitN2(s, sep) ==
    LET i == Index(s, sep)
    IN  IF i = 0 THEN <<s>>
        ELSE <<SubSeq(s, 1, i - 1), From(s, i + Len(sep) - 1)>>

RECURSIVE Join(_, _)
Join(ss, sep) ==
    IF ss = <<>> THEN <<>>
    ELSE IF Len(ss) = 1 THEN ss[1]
    ELSE ss[1] \o sep \o Join(Tail(ss), sep)

\* strings.Replace(s, old, new, -1)
RECURSIVE ReplaceAll(_, _, _)
ReplaceAll(s, old, new) ==
    LET i == Index(s, old)
    IN  IF i = 0 THEN s
        ELSE SubSeq(s, 1, i - 1) \o new \o ReplaceAll(From(s, i + Len(old) - 1), old, new)

\* strings.Replace(s, old, new, 1)
ReplaceFirst(s, old, new) ==
    LET i == Index(s, old)
    IN  IF i = 0 THEN s
        ELSE SubSeq(s, 1, i - 1) \o new \o From(s, i + Len(old) - 1)

\* a literal of several words separated by single spaces
Sp(ws) == Join([i \in 1..Len(ws) |-> <<ws[i]>>], <<" ">>)

\* the first position at or after i that holds no white space (\s*)
RECURSIVE SkipSpaces(_, _)
SkipSpaces(s, i) == IF i <= Len(s) /\ IsSpace(s[i]) THEN SkipSpaces(s, i + 1) ELSE i

\* the first position at or after i that holds no atom of [^\s]
RECURSIVE SkipNonSpaces(_, _)
SkipNonSpaces(s, i) ==
    IF i <= Len(s) /\ ~IsSpace(s[i]) THEN SkipNonSpaces(s, i + 1) ELSE i

(***************************************************************************)
(* searchDomain:                                                           *)
(*   (?i)\[?Domain(\s+name)?\]?\s*\:?\s*([a-z0-9\-]+)\.([a-z]{2,})         *)
(***************************************************************************)
\* [a-z0-9\-] under (?i)
IsLabelAtom(c) == c = "-" \/ c \notin Punct

RECURSIVE LabelEnd(_, _)
LabelEnd(s, i) == IF i <= Len(s) /\ IsLabelAtom(s[i]) THEN LabelEnd(s, i + 1) ELSE i

\* \]?\s*\:?\s*([a-z0-9\-]+)\.([a-z]{2,}) matched from position i: the
\* position of the atom that group 3 takes, 0 when the match fails
DomainTail(s, i) ==
    LET a == IF i <= Len(s) /\ s[i] = "]" THEN i + 1 ELSE i
        b == SkipSpaces(s, a)
        c == IF b <= Len(s) /\ s[b] = ":" THEN b + 1 ELSE b
        d == SkipSpaces(s, c)
        e == LabelEnd(s, d)
    IN  IF /\ e > d
           /\ e + 1 <= Len(s)
           /\ s[e] = "."
           /\ IsAlpha(s[e + 1])
           /\ Len(s[e + 1]) >= 2
        THEN e + 1 ELSE 0

\* the match that starts with the atom Domain at position i; (\s+name)? is
\* greedy and given up when the rest does not match with it
DomainAt(s, i) ==
    LET n == SkipSpaces(s, i + 1)
        withName == IF n > i + 1 /\ n <= Len(s) /\ LowerAtom(s[n]) = "name"
                    THEN DomainTail(s, n + 1) ELSE 0
    IN  IF LowerAtom(s[i]) # "domain" THEN 0
        ELSE IF withName # 0 THEN withName
        ELSE DomainTail(s, i + 1)

\* the position of m[3] in the text for the leftmost match of searchDomain,
\* 0 when len(m) = 0
DomainMatch(s) ==
    LET at == {i \in 1..Len(s) : DomainAt(s, i) # 0}
    IN  IF at = {} THEN 0
        ELSE DomainAt(s, CHOOSE i \in at : \A j \in at : i <= j)

\* m[3] of searchDomain.FindStringSubmatch(text), <<>> when len(m) = 0
SearchDomain(s) == IF DomainMatch(s) = 0 THEN <<>> ELSE <<s[DomainMatch(s)]>>

(***************************************************************************)
(* Literals shared by the transformers.                                    *)
(***************************************************************************)
NL == <<"\n">>
SP == <<" ">>
Colon == <<":">>
ColonSp == <<":", " ">>
CommaSp == <<",", " ">>

\* no run-time panic
NoFault == ""
\* tokens[token][index] with index >= len(tokens[token])
IndexFault == "tokens[token][index]: index out of range"
\* vs[1] with len(vs) = 1
ColonFault == "vs[1]: index out of range"

(***************************************************************************)
(* prepareEDU                                                              *)
(***************************************************************************)
EDURegistrant == <<"Registrant", ":">>
EDUAdmin == Sp(<<"Administrative", "Contact">>) \o Colon
EDUTech == Sp(<<"Technical", "Contact">>) \o Colon

EDUContact == <<"Name", "Organization", "Address", "Address", "Address", "Phone", "Email">>

\* tokens of prepareEDU
EDUTokens == {EDURegistrant, EDUAdmin, EDUTech}

EDUSchema(t) ==
    IF t = EDURegistrant THEN <<"Organization", "Address", "Address", "Address">>
    ELSE EDUContact

\* prepareEDU without index += 1
EDULineNotAdvancing(tok, idx, res, line) ==
    LET v == TrimSpace(line)
        reset == HasSuffix(v, Colon)
        t == IF reset THEN <<>> ELSE tok
        i == IF reset THEN 0 ELSE idx
    IN  IF v = <<>>
        THEN [token |-> tok, index |-> idx, result |-> res, fault |-> NoFault]
        ELSE IF v \in EDUTokens
        THEN [token |-> v, index |-> i, result |-> res, fault |-> NoFault]
        ELSE IF t = <<>>
        THEN [token |-> t, index |-> i, result |-> res \o NL \o v, fault |-> NoFault]
        ELSE [token |-> t, index |-> i,
              result |-> res \o NL \o SubSeq(t, 1, Len(t) - 1) \o SP
                             \o <<EDUSchema(t)[i + 1]>> \o ColonSp \o v,
              fault |-> NoFault]

\* one pass of the loop body of prepareEDU over the raw line
EDULine(tok, idx, res, line) ==
    LET v == TrimSpace(line)
        reset == HasSuffix(v, Colon)
        t == IF reset THEN <<>> ELSE tok
        i == IF reset THEN 0 ELSE idx
    IN  IF v = <<>>
        THEN [token |-> tok, index |-> idx, result |-> res, fault |-> NoFault]
        ELSE IF v \in EDUTokens
        THEN [token |-> v, index |-> i, result |-> res, fault |-> NoFault]
        ELSE IF t = <<>>
        THEN [token |-> t, index |-> i, result |-> res \o NL \o v, fault |-> NoFault]
        ELSE IF i >= Len(EDUSchema(t))
        THEN [token |-> t, index |-> i, result |-> res, fault |-> IndexFault]
        ELSE [token |-> t, index |-> i + 1,
              result |-> res \o NL \o SubSeq(t, 1, Len(t) - 1) \o SP
                             \o <<EDUSchema(t)[i + 1]>> \o ColonSp \o v,
              fault |-> NoFault]

(***************************************************************************)
(* prepareINT                                                              *)
(***************************************************************************)
\* prepareINT taking every organisation line as the registrant's
INTLineOrganisationRegistrant(tok, res, line) ==
    LET v == TrimSpace(line)
        vs == Split(v, Colon)
        key == TrimSpace(vs[1])
        t == IF key = <<"organisation">> THEN <<"registrant">> ELSE tok
    IN  IF v = <<>>
        THEN [token |-> <<>>, result |-> res]
        ELSE IF ~Contains(v, Colon)
        THEN [token |-> tok, result |-> res \o NL \o v]
        ELSE IF key = <<"contact">>
        THEN [token |-> TrimSpace(vs[2]), result |-> res \o NL \o v]
        ELSE [token |-> t,
              result |-> res \o NL \o (IF t # <<>> THEN t \o SP \o v ELSE v)]

\* one pass of the loop body of prepareINT over the raw line
INTLine(tok, res, line) ==
    LET v == TrimSpace(line)
        vs == Split(v, Colon)
        key == TrimSpace(vs[1])
        t == IF key = <<"organisation">> /\ tok = <<>> THEN <<"registrant">> ELSE tok
    IN  IF v = <<>>
        THEN [token |-> <<>>, result |-> res]
        ELSE IF ~Contains(v, Colon)
        THEN [token |-> tok, result |-> res \o NL \o v]
        ELSE IF key = <<"contact">>
        THEN [token |-> TrimSpace(vs[2]), result |-> res \o NL \o v]
        ELSE [token |-> t,
              result |-> res \o NL \o (IF t # <<>> THEN t \o SP \o v ELSE v)]

(***************************************************************************)
(* prepareMO (the date rewriting is shared with prepareTW)                 *)
(***************************************************************************)
RecordCreated == Sp(<<"Record", "created", "on">>)
RecordExpires == Sp(<<"Record", "expires", "on">>)

\* for _, s := range {"Record created on", "Record expires on"}: a colon is
\* put after the prefix s
DateColon(v) ==
    LET v1 == IF HasPrefix(v, RecordCreated)
              THEN ReplaceFirst(v, RecordCreated, RecordCreated \o Colon) ELSE v
    IN  IF HasPrefix(v1, RecordExpires)
        THEN ReplaceFirst(v1, RecordExpires, RecordExpires \o Colon) ELSE v1

MORegistrant == <<"Registrant", ":">>
MOAdmin == <<"Admin", " ", "Contact", "(", "s", ")", ":">>
MOBilling == <<"Billing", " ", "Contact", "(", "s", ")", ":">>
MOTech == <<"Technical", " ", "Contact", "(", "s", ")", ":">>

MOTokens == {MORegistrant, MOAdmin, MOBilling, MOTech}

\* tokens[v] of prepareMO
MOName(v) == <<v[1]>>

\* prepareMO skipping a blank line as prepareEDU does, the token kept
MOLineKeepingToken(tok, res, line) ==
    LET v0 == TrimSpace(line)
        v == DateColon(v0)
    IN  IF v0 = <<>> \/ v0[1] = "-"
        THEN [token |-> tok, result |-> res]
        ELSE IF v \in MOTokens
        THEN [token |-> MOName(v), result |-> res \o NL \o v]
        ELSE [token |-> tok,
              result |-> res \o NL \o (IF tok # <<>> THEN tok \o SP \o v ELSE v)]

\* prepareMO consuming a section header as prepareEDU does, nothing emitted
MOLineSwallowingHeader(tok, res, line) ==
    LET v0 == TrimSpace(line)
        v == DateColon(v0)
    IN  IF v0 = <<>>
        THEN [token |-> <<>>, result |-> res]
        ELSE IF v0[1] = "-"
        THEN [token |-> tok, result |-> res]
        ELSE IF v \in MOTokens
        THEN [token |-> MOName(v), result |-> res]
        ELSE [token |-> tok,
              result |-> res \o NL \o (IF tok # <<>> THEN tok \o SP \o v ELSE v)]

MOLine(tok, res, line) ==
    LET v0 == TrimSpace(line)
        v == DateColon(v0)
    IN  IF v0 = <<>>
        THEN [token |-> <<>>, result |-> res]
        ELSE IF v0[1] = "-"
        THEN [token |-> tok, result |-> res]
        ELSE IF v \in MOTokens
        THEN [token |-> MOName(v), result |-> res \o NL \o v]
        ELSE [token |-> tok,
              result |-> res \o NL \o (IF tok # <<>> THEN tok \o SP \o v ELSE v)]

(***************************************************************************)
(* prepareHK                                                               *)
(***************************************************************************)
HKRegistrant == Sp(<<"Registrant", "Contact", "Information">>) \o Colon
HKAdmin == Sp(<<"Administrative", "Contact", "Information">>) \o Colon
HKTech == Sp(<<"Technical", "Contact", "Information">>) \o Colon
HKNameServers == Sp(<<"Name", "Servers", "Information">>) \o Colon

HKTokens == {HKRegistrant, HKAdmin, HKTech, HKNameServers}

\* tokens[v] of prepareHK
HKName(v) ==
    IF v = HKRegistrant THEN <<"Registrant">>
    ELSE IF v = HKAdmin THEN <<"Admin">>
    ELSE IF v = HKTech THEN <<"Technical">>
    ELSE Sp(<<"Name", "Servers">>) \o Colon

HKDateTokens == {Sp(<<"Domain", "Name", "Commencement", "Date">>), Sp(<<"Expiry", "Date">>)}

HKFamilyName == Sp(<<"Family", "name">>)
HKRegistrarContact == Sp(<<"Registrar", "Contact", "Information">>)

\* re.FindStringSubmatch of `Email\:\s+([^\s]+)(\s+Hotline\:(.*))?`
HKEmailHotline(s) ==
    LET at == {i \in 1..Len(s) :
                  /\ s[i] = "Email"
                  /\ i + 2 <= Len(s)
                  /\ s[i + 1] = ":"
                  /\ IsSpace(s[i + 2])
                  /\ SkipSpaces(s, i + 2) <= Len(s)}
    IN  IF at = {} THEN [ok |-> FALSE, m1 |-> <<>>, m3 |-> <<>>]
        ELSE LET i == CHOOSE i \in at : \A j \in at : i <= j
                 j == SkipSpaces(s, i + 2)
                 k == SkipNonSpaces(s, j)
                 h == SkipSpaces(s, k)
                 hot == h > k /\ h + 1 <= Len(s) /\ s[h] = "Hotline" /\ s[h + 1] = ":"
             IN  [ok |-> TRUE, m1 |-> SubSeq(s, j, k - 1),
                  m3 |-> IF hot THEN From(s, h + 1) ELSE <<>>]

\* the value v takes on a "Registrar Contact Information" line
HKRegistrarLines(v, rest) ==
    LET m == HKEmailHotline(rest)
        e == IF m.m1 # <<>>
             THEN Sp(<<"Registrar", "Contact", "Email">>) \o ColonSp \o m.m1 \o NL
             ELSE <<>>
        p == IF m.m3 # <<>>
             THEN Sp(<<"Registrar", "Contact", "Phone">>) \o ColonSp \o m.m3 \o NL
             ELSE <<>>
    IN  IF m.ok THEN TrimSpace(e \o p) ELSE v

\* the Family name branch without its test for the placeholder "."
HKFamilyNameKeepingDot(res, vv) == IF vv # <<>> THEN res \o SP \o vv ELSE res

\* if vv != "" && vv != "." { result += " " + vv }
HKFamilyNameJoin(res, vv) == IF vv # <<>> /\ vv # <<".">> THEN res \o SP \o vv ELSE res

HKLine(tok, addr, res, line) ==
    LET v0 == TrimSpace(line)
        colon == Contains(v0, Colon)
        vs == SplitN2(v0, Colon)
        f0 == TrimSpace(vs[1])
        paren == Contains(f0, <<"(">>)
        field == IF ~colon THEN <<>>
                 ELSE IF paren THEN Split(f0, <<"(">>)[1] ELSE f0
        v1 == IF colon /\ paren THEN field \o ColonSp \o vs[2] ELSE v0
        v == IF colon /\ field = HKRegistrarContact
             THEN HKRegistrarLines(v1, vs[2]) ELSE v1
        a == IF colon THEN field = Sp(<<"Address">>) ELSE addr
        vv == TrimSpace(vs[2])
    IN  IF v0 = <<>>
        THEN [token |-> <<>>, addressToken |-> addr, result |-> res]
        ELSE IF colon /\ field = HKFamilyName
        THEN [token |-> tok, addressToken |-> a,
              result |-> HKFamilyNameJoin(res, vv)]
        ELSE IF ~colon /\ addr
        THEN [token |-> tok, addressToken |-> a, result |-> res \o CommaSp \o v]
        ELSE IF v \in HKTokens
        THEN [token |-> HKName(v), addressToken |-> a, result |-> res \o NL \o v]
        ELSE [token |-> tok, addressToken |-> a,
              result |-> res \o NL \o (IF tok # <<>> /\ field \notin HKDateTokens
                                       THEN tok \o SP \o v ELSE v)]

(***************************************************************************)
(* prepareTW                                                               *)
(***************************************************************************)
TWRegistrant == <<"Registrant", ":">>
TWAdmin == Sp(<<"Administrative", "Contact">>) \o Colon
TWTech == Sp(<<"Technical", "Contact">>) \o Colon
TWContact == <<"Contact", ":">>

TWTokens == {TWRegistrant, TWAdmin, TWTech, TWContact}

\* a schema field is the list of its comma-separated names: "Name,Email" is
\* <<"Name", "Email">>, strings.Split(indexName, ",")
TWNameEmail == <<"Name", "Email">>

TWSchema(t) ==
    IF t = TWRegistrant
    THEN <<<<"Organization">>, TWNameEmail, <<"Phone">>, <<"Fax">>,
           <<"Address">>, <<"Address">>, <<"Address">>>>
    ELSE IF t = TWContact THEN <<<<"Name">>, <<"Email">>>>
    ELSE <<TWNameEmail, <<"Phone">>, <<"Fax">>>>

\* re.FindStringSubmatch of `(.*)\s+([^\s]+@[^\s]+)`: group 2 is a run of
\* non-space atoms that follows white space and holds an @ with an atom on
\* either side; the greedy (.*) takes the last such run
TWNameEmailMatch(v) ==
    LET at == {p \in 2..Len(v) :
                  /\ IsSpace(v[p - 1])
                  /\ ~IsSpace(v[p])
                  /\ \E a \in (p + 1)..(SkipNonSpaces(v, p) - 2) : v[a] = "@"}
    IN  IF at = {} THEN [ok |-> FALSE, m1 |-> <<>>, m2 |-> <<>>]
        ELSE LET p == CHOOSE p \in at : \A q \in at : q <= p
             IN  [ok |-> TRUE, m1 |-> SubSeq(v, 1, p - 2),
                  m2 |-> SubSeq(v, p, SkipNonSpaces(v, p) - 1)]

\* prepareTW resetting as prepareEDU does, on a line that ends in a colon
TWLineResettingOnSuffix(tok, idx, res, line) ==
    LET v == DateColon(TrimSpace(line))
        reset == HasSuffix(v, Colon)
        t == IF reset THEN <<>> ELSE tok
        i == IF reset THEN -1 ELSE idx
        k == i + 1
        tokenName == IF SubSeq(t, 1, Len(t) - 1) = <<"Contact">>
                     THEN Sp(<<"Registrant", "Contact">>)
                     ELSE SubSeq(t, 1, Len(t) - 1)
        ins == TWSchema(t)[k + 1]
        m == TWNameEmailMatch(v)
    IN  IF v = <<>>
        THEN [token |-> tok, index |-> idx, result |-> res, fault |-> NoFault]
        ELSE IF v \in TWTokens
        THEN [token |-> v, index |-> i, result |-> res, fault |-> NoFault]
        ELSE IF t = <<>>
        THEN [token |-> t, index |-> i, result |-> res \o NL \o v, fault |-> NoFault]
        ELSE IF k >= Len(TWSchema(t))
        THEN [token |-> t, index |-> k, result |-> res, fault |-> IndexFault]
        ELSE IF Len(ins) > 1
        THEN [token |-> t, index |-> k,
              result |->
                  IF m.ok
                  THEN res \o NL \o tokenName \o SP \o <<ins[1]>> \o ColonSp \o TrimSpace(m.m1)
                           \o NL \o tokenName \o SP \o <<ins[2]>> \o ColonSp \o TrimSpace(m.m2)
                  ELSE res \o NL \o tokenName \o SP \o <<ins[1]>> \o ColonSp \o TrimSpace(v),
              fault |-> NoFault]
        ELSE [token |-> t, index |-> k,
              result |-> res \o NL \o tokenName \o SP \o ins \o ColonSp \o v,
              fault |-> NoFault]

\* one pass of the loop body of prepareTW over the raw line
TWLine(tok, idx, res, line) ==
    LET v == DateColon(TrimSpace(line))
        reset == Contains(v, Colon)
        t == IF reset THEN <<>> ELSE tok
        i == IF reset THEN -1 ELSE idx
        k == i + 1
        tokenName == IF SubSeq(t, 1, Len(t) - 1) = <<"Contact">>
                     THEN Sp(<<"Registrant", "Contact">>)
                     ELSE SubSeq(t, 1, Len(t) - 1)
        ins == TWSchema(t)[k + 1]
        m == TWNameEmailMatch(v)
    IN  IF v = <<>>
        THEN [token |-> tok, index |-> idx, result |-> res, fault |-> NoFault]
        ELSE IF v \in TWTokens
        THEN [token |-> v, index |-> i, result |-> res, fault |-> NoFault]
        ELSE IF t = <<>>
        THEN [token |-> t, index |-> i, result |-> res \o NL \o v, fault |-> NoFault]
        ELSE IF k >= Len(TWSchema(t))
        THEN [token |-> t, index |-> k, result |-> res, fault |-> IndexFault]
        ELSE IF Len(ins) > 1
        THEN [token |-> t, index |-> k,
              result |->
                  IF m.ok
                  THEN res \o NL \o tokenName \o SP \o <<ins[1]>> \o ColonSp \o TrimSpace(m.m1)
                           \o NL \o tokenName \o SP \o <<ins[2]>> \o ColonSp \o TrimSpace(m.m2)
                  ELSE res \o NL \o tokenName \o SP \o <<ins[1]>> \o ColonSp \o TrimSpace(v),
              fault |-> NoFault]
        ELSE [token |-> t, index |-> k,
              result |-> res \o NL \o tokenName \o SP \o ins \o ColonSp \o v,
              fault |-> NoFault]

(***************************************************************************)
(* prepareCH                                                               *)
(***************************************************************************)
CHHolder == <<"Holder">>
CHTechnical == Sp(<<"Technical", "contact">>)

\* tokens of prepareCH, in the order the loop tries them
CHTokens == <<Sp(<<"Domain", "name">>), CHHolder, CHTechnical, <<"Registrar">>,
              <<"DNSSEC">>, Sp(<<"Name", "servers">>),
              Sp(<<"First", "registration", "date">>)>>

\* splits[t], already split on ", "
CHSplits(t) ==
    IF t = CHHolder
    THEN <<Sp(<<"Registrant", "organization">>), Sp(<<"Registrant", "name">>),
           Sp(<<"Registrant", "street">>)>>
    ELSE <<Sp(<<"Technical", "organization">>), Sp(<<"Technical", "name">>),
           Sp(<<"Technical", "street">>)>>

\* the first loop of prepareCH
CHLine(res, line) ==
    LET v == TrimSpace(line)
        found == {k \in 1..Len(CHTokens) :
                     HasPrefix(ToLower(v) \o SP, ToLower(CHTokens[k] \o SP))}
        t == CHTokens[CHOOSE k \in found : \A j \in found : k <= j]
    IN  IF v = <<>> THEN res
        ELSE IF found # {}
        THEN res \o NL \o TrimSpace(t) \o ColonSp \o TrimSpace(From(v, Len(t)))
        ELSE res \o CommaSp \o v

\* the second loop of prepareCH, over the lines of the first loop's result
CHSplitLine(rs, v) ==
    LET vs == Split(v, Colon)
        vv == Split(vs[2], CommaSp)
        ss == CHSplits(vs[1])
        n == Len(ss)
        folded == IF Len(vv) > n
                  THEN SubSeq(vv, 1, n - 1) \o <<Join(From(vv, n - 1), CommaSp)>>
                  ELSE vv
    IN  IF ~Contains(v, Colon) THEN rs
        ELSE IF vs[1] \in {CHHolder, CHTechnical}
        THEN rs \o [k \in 1..Len(folded) |-> ss[k] \o ColonSp \o folded[k]]
        ELSE Append(rs, v)

\* text = strings.Join(results, "\n"); strings.Replace(text, ": ,", ":", -1)
CHFinal(rs) == ReplaceAll(Join(rs, NL), <<":", " ", ",">>, Colon)

(***************************************************************************)
(* prepareIT                                                               *)
(***************************************************************************)
ITTopTokens == {<<"Registrant">>, Sp(<<"Admin", "Contact">>),
                Sp(<<"Technical", "Contacts">>), <<"Registrar">>, <<"Nameservers">>}

ITLine(top, sub, res, line) ==
    LET v == TrimSpace(line)
        colon == Contains(v, Colon)
        keyed == v[1] # "*" /\ colon
        s == IF keyed THEN Split(v, Colon)[1] ELSE sub
    IN  IF v = <<>>
        THEN [token |-> top, subToken |-> sub, result |-> res]
        ELSE IF v \in ITTopTokens
        THEN [token |-> v \o SP, subToken |-> <<>>, result |-> res]
        ELSE IF ~keyed /\ sub # <<>>
        THEN [token |-> top, subToken |-> sub, result |-> res \o CommaSp \o v]
        ELSE IF top # <<>> /\ ~colon
        THEN [token |-> top, subToken |-> s, result |-> res \o NL \o top \o ColonSp \o v]
        ELSE [token |-> top, subToken |-> s, result |-> res \o NL \o top \o v]

(***************************************************************************)
(* prepareFR                                                               *)
(***************************************************************************)
FRDsToken == <<"dsl", "-", "id">>
FRHdlToken == <<"nic", "-", "hdl">>
FRRegToken == <<"registrar">>

FRRoleKeys == {<<"holder", "-", "c">>, <<"admin", "-", "c">>, <<"tech", "-", "c">>}

\* tokens[key] of prepareFR
FRRole(key) == key[1]

\* Keys(hdls): the keys of the map in sorted order
Keys(h) == SelectSeq(<<"admin", "holder", "tech">>, LAMBDA k : k \in DOMAIN h)

\* the correlation loop without its comparison: every recorded role matches
FRCorrelateAnyHandle(h, val) == Keys(h)

\* for _, kk := range Keys(hdls): the roles whose recorded handle equals the
\* value of the nic-hdl line, in the order of the loop; the first one is taken
FRCorrelate(h, val) == SelectSeq(Keys(h), LAMBDA k : h[k] = val)

\* prepareFR without delete(hdls, kk)
FRLineKeepingEntry(tok, nb, h, res, line) ==
    LET v0 == TrimSpace(line)
        vs == Split(v0, Colon)
        key == TrimSpace(vs[1])
        val == TrimSpace(vs[2])
        reg == nb /\ key = FRRegToken
        role == key \in FRRoleKeys
        ds == key = FRDsToken
        hdl == key = FRHdlToken
        h1 == IF role
              THEN [k \in DOMAIN h \cup {FRRole(key)} |->
                       IF k = FRRole(key) THEN val ELSE h[k]]
              ELSE h
        panics == Len(vs) < 2 /\ (reg \/ role \/ ds \/ (hdl /\ Keys(h1) # <<>>))
        t1 == IF reg THEN FRRegToken \o SP ELSE tok
        v1 == IF reg THEN <<"name">> \o ColonSp \o val ELSE v0
        v2 == IF ds /\ val # <<>>
              THEN v1 \o NL \o <<"DNSSEC">> \o ColonSp \o <<"signed">> ELSE v1
        hit == IF Keys(h1) = <<>> THEN <<>> ELSE FRCorrelate(h1, val)
        found == hdl /\ hit # <<>>
        t2 == IF found THEN <<hit[1]>> \o SP ELSE t1
        h2 == h1
    IN  IF v0 = <<>>
        THEN [token |-> tok, newBlock |-> TRUE, hdls |-> h, result |-> res,
              fault |-> NoFault]
        ELSE IF panics
        THEN [token |-> tok, newBlock |-> nb, hdls |-> h, result |-> res,
              fault |-> ColonFault]
        ELSE [token |-> t2, newBlock |-> FALSE, hdls |-> h2,
              result |-> res \o NL \o t2 \o v2, fault |-> NoFault]

\* one pass of the loop body of prepareFR over the raw line
FRLine(tok, nb, h, res, line) ==
    LET v0 == TrimSpace(line)
        vs == Split(v0, Colon)
        key == TrimSpace(vs[1])
        val == TrimSpace(vs[2])
        reg == nb /\ key = FRRegToken
        role == key \in FRRoleKeys
        ds == key = FRDsToken
        hdl == key = FRHdlToken
        h1 == IF role
              THEN [k \in DOMAIN h \cup {FRRole(key)} |->
                       IF k = FRRole(key) THEN val ELSE h[k]]
              ELSE h
        panics == Len(vs) < 2 /\ (reg \/ role \/ ds \/ (hdl /\ Keys(h1) # <<>>))
        t1 == IF reg THEN FRRegToken \o SP ELSE tok
        v1 == IF reg THEN <<"name">> \o ColonSp \o val ELSE v0
        v2 == IF ds /\ val # <<>>
              THEN v1 \o NL \o <<"DNSSEC">> \o ColonSp \o <<"signed">> ELSE v1
        hit == IF Keys(h1) = <<>> THEN <<>> ELSE FRCorrelate(h1, val)
        found == hdl /\ hit # <<>>
        t2 == IF found THEN <<hit[1]>> \o SP ELSE t1
        h2 == IF found THEN [k \in DOMAIN h1 \ {hit[1]} |-> h1[k]] ELSE h1
    IN  IF v0 = <<>>
        THEN [token |-> tok, newBlock |-> TRUE, hdls |-> h, result |-> res,
              fault |-> NoFault]
        ELSE IF panics
        THEN [token |-> tok, newBlock |-> nb, hdls |-> h, result |-> res,
              fault |-> ColonFault]
        ELSE [token |-> t2, newBlock |-> FALSE, hdls |-> h2,
              result |-> res \o NL \o t2 \o v2, fault |-> NoFault]

(***************************************************************************)
(* prepareRU                                                               *)
(***************************************************************************)
RUKeys == {<<"person">>, <<"e", "-", "mail">>, <<"org">>}

\* tokens[key] of prepareRU
RULabel(key) ==
    IF key = <<"person">> THEN Sp(<<"Registrant", "Name">>)
    ELSE IF key = <<"org">> THEN Sp(<<"Registrant", "Organization">>)
    ELSE Sp(<<"Registrant", "Email">>)

\* prepareRU writing the trimmed value after the mapped label
RULineTrimmingValue(res, line) ==
    LET v == TrimSpace(line)
        vs == Split(v, Colon)
        key == TrimSpace(vs[1])
    IN  IF v = <<>> \/ ~Contains(v, Colon) THEN res
        ELSE IF key \in RUKeys
        THEN res \o RULabel(key) \o ColonSp \o TrimSpace(vs[2]) \o NL
        ELSE res \o v \o NL

RULine(res, line) ==
    LET v == TrimSpace(line)
        vs == Split(v, Colon)
        key == TrimSpace(vs[1])
    IN  IF v = <<>> \/ ~Contains(v, Colon) THEN res
        ELSE IF key \in RUKeys
        THEN res \o RULabel(key) \o ColonSp \o vs[2] \o NL
        ELSE res \o v \o NL

(***************************************************************************)
(* prepareJP                                                               *)
(***************************************************************************)
\* the first "]" after position i on the same line with at least one atom
\* before it, 0 when there is none: the end of the lazy (.+?) of
\* `\n\[(.+?)\][\ ]*(.+?)?`
RECURSIVE JPClose(_, _)
JPClose(s, i) ==
    IF i > Len(s) \/ s[i - 1] = "\n" THEN 0
    ELSE IF s[i] = "]" THEN i
    ELSE JPClose(s, i + 1)

\* the first position at or after i that holds no space: [\ ]*
RECURSIVE JPSkipBlanks(_, _)
JPSkipBlanks(s, i) == IF i <= Len(s) /\ s[i] = " " THEN JPSkipBlanks(s, i + 1) ELSE i

\* dotJPReplacer.ReplaceAllString(text, "\n$1: $2").  The trailing (.+?)? takes
\* at most one character, which $2 writes back where it stood, so a match
\* replaces "\n[X]" and the spaces after it by "\nX: "
RECURSIVE JPReplace(_)
JPReplace(s) ==
    IF s = <<>> THEN <<>>
    ELSE IF Len(s) >= 4 /\ s[1] = "\n" /\ s[2] = "[" /\ JPClose(s, 4) # 0
    THEN LET c == JPClose(s, 4)
         IN  NL \o SubSeq(s, 3, c - 1) \o ColonSp
                \o JPReplace(From(s, JPSkipBlanks(s, c + 1) - 1))
    ELSE <<Head(s)>> \o JPReplace(Tail(s))

JPAdminToken == Sp(<<"Contact", "Information">>)
JPAddressToken == Sp(<<"Postal", "Address">>)

JPLine(tok, pre, res, line) ==
    LET v == TrimSpace(line)
        colon == Contains(v, Colon)
        t == IF colon THEN TrimSpace(Split(v, Colon)[1]) ELSE tok
        p == IF colon /\ t = JPAdminToken THEN <<"admin", " ">> ELSE pre
    IN  IF v = <<>>
        THEN [token |-> tok, prefixToken |-> pre, result |-> res]
        ELSE IF ~colon /\ tok = JPAddressToken
        THEN [token |-> t, prefixToken |-> p, result |-> res \o CommaSp \o v]
        ELSE [token |-> t, prefixToken |-> p, result |-> res \o NL \o p \o v]

(***************************************************************************)
(* prepareUK                                                               *)
(***************************************************************************)
UKKeys == {<<"URL">>}

\* tokens[key] of prepareUK
UKLabel(key) == Sp(<<"Registrar", "URL">>)

UKLine(res, line) ==
    LET v == TrimSpace(line)
        vs == SplitN2(v, Colon)
    IN  IF v = <<>> THEN res
        ELSE IF Contains(v, Colon) /\ TrimSpace(vs[1]) \in UKKeys
        THEN res \o NL \o UKLabel(TrimSpace(vs[1])) \o ColonSp \o vs[2]
        ELSE res \o NL \o v

(***************************************************************************)
(* prepareKR                                                               *)
(***************************************************************************)
KREnglish == <<"#", " ", "ENGLISH">>

KRAdminContact == <<"Administrative", " ", "Contact", "(", "AC", ")">>
KREmail == <<"AC", " ", "E", "-", "Mail">>
KRPhone == Sp(<<"AC", "Phone", "Number">>)

KRKeys == {KRAdminContact, KREmail, KRPhone}

\* tokens[key] of prepareKR
KRLabel(key) ==
    IF key = KRAdminContact THEN Sp(<<"Administrative", "Contact", "Name">>)
    ELSE IF key = KREmail
    THEN <<"Administrative", " ", "Contact", " ", "E", "-", "Mail">>
    ELSE Sp(<<"Administrative", "Contact", "Phone", "Number">>)

\* text[pos+len(english):] when the marker occurs
KRText(text) ==
    LET i == Index(text, KREnglish)
    IN  IF i # 0 THEN From(text, i + Len(KREnglish) - 1) ELSE text

KRLine(res, line) ==
    LET v == TrimSpace(line)
        vs == SplitN2(v, Colon)
    IN  IF v = <<>> THEN res
        ELSE IF v[1] \in {"'", "-"} THEN res
        ELSE IF Contains(v, Colon) /\ TrimSpace(vs[1]) \in KRKeys
        THEN res \o NL \o KRLabel(TrimSpace(vs[1])) \o ColonSp \o vs[2]
        ELSE res \o NL \o v

(***************************************************************************)
(* Prepare                                                                 *)
(***************************************************************************)
\* PrePass without its second replacement: tabs are kept
PrePassKeepingTabs(text) == ReplaceAll(text, <<"\r">>, <<>>)

\* strings.Replace(text, "\r", "", -1); strings.Replace(text, "\t", " ", -1)
PrePass(text) == ReplaceAll(ReplaceAll(text, <<"\r">>, <<>>), <<"\t">>, SP)

\* strings.ToLower(m[3]), <<>> when len(m) = 0
Label(text) == ToLower(SearchDomain(text))

\* the switch of Prepare: the transformer of a label, "none" for the default
Transformer(label) ==
    CASE label = <<"edu">> -> "edu"
      [] label = <<"int">> -> "int"
      [] label = <<"mo">> -> "mo"
      [] label = <<"hk">> -> "hk"
      [] label = <<"tw">> -> "tw"
      [] label = <<"ch">> -> "ch"
      [] label = <<"it">> -> "it"
      [] label \in {<<"fr">>, <<"re">>, <<"tf">>, <<"yt">>, <<"pm">>, <<"wf">>} -> "fr"
      [] label \in {<<"ru">>, <<"su">>} -> "ru"
      [] label = <<"jp">> -> "jp"
      [] label = <<"uk">> -> "uk"
      [] label = <<"kr">> -> "kr"
      [] OTHER -> "none"

\* the lines a transformer's loop ranges over
LoopLines(tr, text) ==
    CASE tr = "hk" -> Split(ReplaceAll(text, NL \o NL, NL), NL)
      [] tr = "jp" -> Split(JPReplace(text), NL)
      [] tr = "kr" -> Split(KRText(text), NL)
      [] OTHER -> Split(text, NL)

\* prepareFR starting from the map an earlier call left behind
HandlesLeftOver == hdls

\* hdls := map[string]string{}
NoHandles == [k \in {} |-> <<>>]

Loops == {"edu", "int", "mo", "hk", "tw", "it", "fr", "ru", "jp", "uk", "kr"}

\* Prepare up to the first iteration of the chosen transformer's loop; the
\* default case returns the text of the pre-pass
Prepare ==
    /\ pc = "start"
    /\ LET text == PrePass(input)
           tr == Transformer(Label(text))
       IN  /\ dialect' = Label(text)
           /\ pc' = IF tr = "none" THEN "done" ELSE tr
           /\ result' = IF tr = "none" THEN text ELSE <<>>
           /\ lines' = IF tr = "none" THEN <<>> ELSE LoopLines(tr, text)
           /\ index' = IF tr = "tw" THEN -1 ELSE 0
    /\ pos' = 1
    /\ token' = <<>>
    /\ newBlock' = FALSE
    /\ addressToken' = FALSE
    /\ subToken' = <<>>
    /\ prefixToken' = <<>>
    /\ hdls' = NoHandles
    /\ results' = <<>>
    /\ UNCHANGED <<input, fault, earlier>>

\* what a loop iteration does to the control state
Advance(f) ==
    /\ pos' = pos + 1
    /\ fault' = f
    /\ pc' = IF f # NoFault THEN "panic" ELSE pc
    /\ UNCHANGED <<input, dialect, lines, earlier>>

EDUStep ==
    /\ pc = "edu" /\ pos <= Len(lines)
    /\ LET n == EDULine(token, index, result, lines[pos])
       IN  token' = n.token /\ index' = n.index /\ result' = n.result /\ Advance(n.fault)
    /\ UNCHANGED <<newBlock, addressToken, subToken, prefixToken, hdls, results>>

INTStep ==
    /\ pc = "int" /\ pos <= Len(lines)
    /\ LET n == INTLine(token, result, lines[pos])
       IN  token' = n.token /\ result' = n.result /\ Advance(NoFault)
    /\ UNCHANGED <<index, newBlock, addressToken, subToken, prefixToken, hdls, results>>

MOStep ==
    /\ pc = "mo" /\ pos <= Len(lines)
    /\ LET n == MOLine(token, result, lines[pos])
       IN  token' = n.token /\ result' = n.result /\ Advance(NoFault)
    /\ UNCHANGED <<index, newBlock, addressToken, subToken, prefixToken, hdls, results>>

HKStep ==
    /\ pc = "hk" /\ pos <= Len(lines)
    /\ LET n == HKLine(token, addressToken, result, lines[pos])
       IN  /\ token' = n.token /\ addressToken' = n.addressToken /\ result' = n.result
           /\ Advance(NoFault)
    /\ UNCHANGED <<index, newBlock, subToken, prefixToken, hdls, results>>

TWStep ==
    /\ pc = "tw" /\ pos <= Len(lines)
    /\ LET n == TWLine(token, index, result, lines[pos])
       IN  token' = n.token /\ index' = n.index /\ result' = n.result /\ Advance(n.fault)
    /\ UNCHANGED <<newBlock, addressToken, subToken, prefixToken, hdls, results>>

CHStep ==
    /\ pc = "ch" /\ pos <= Len(lines)
    /\ result' = CHLine(result, lines[pos])
    /\ Advance(NoFault)
    /\ UNCHANGED <<token, index, newBlock, addressToken, subToken, prefixToken, hdls,
                   results>>

\* the first loop of prepareCH is over: the second ranges over its result
CHSecondLoop ==
    /\ pc = "ch" /\ pos > Len(lines)
    /\ pc' = "ch2"
    /\ lines' = Split(result, NL)
    /\ pos' = 1
    /\ results' = <<>>
    /\ UNCHANGED <<input, dialect, token, index, result, newBlock, addressToken,
                   subToken, prefixToken, hdls, fault, earlier>>

CHSplitStep ==
    /\ pc = "ch2" /\ pos <= Len(lines)
    /\ results' = CHSplitLine(results, lines[pos])
    /\ Advance(NoFault)
    /\ UNCHANGED <<token, index, result, newBlock, addressToken, subToken, prefixToken,
                   hdls>>

CHReturn ==
    /\ pc = "ch2" /\ pos > Len(lines)
    /\ result' = CHFinal(results)
    /\ pc' = "done"
    /\ UNCHANGED <<input, dialect, lines, pos, token, index, newBlock, addressToken,
                   subToken, prefixToken, hdls, results, fault, earlier>>

ITStep ==
    /\ pc = "it" /\ pos <= Len(lines)
    /\ LET n == ITLine(token, subToken, result, lines[pos])
       IN  /\ token' = n.token /\ subToken' = n.subToken /\ result' = n.result
           /\ Advance(NoFault)
    /\ UNCHANGED <<index, newBlock, addressToken, prefixToken, hdls, results>>

FRStep ==
    /\ pc = "fr" /\ pos <= Len(lines)
    /\ LET n == FRLine(token, newBlock, hdls, result, lines[pos])
       IN  /\ token' = n.token /\ newBlock' = n.newBlock /\ hdls' = n.hdls
           /\ result' = n.result
           /\ Advance(n.fault)
    /\ UNCHANGED <<index, addressToken, subToken, prefixToken, results>>

RUStep ==
    /\ pc = "ru" /\ pos <= Len(lines)
    /\ result' = RULine(result, lines[pos])
    /\ Advance(NoFault)
    /\ UNCHANGED <<token, index, newBlock, addressToken, subToken, prefixToken, hdls,
                   results>>

JPStep ==
    /\ pc = "jp" /\ pos <= Len(lines)
    /\ LET n == JPLine(token, prefixToken, result, lines[pos])
       IN  /\ token' = n.token /\ prefixToken' = n.prefixToken /\ result' = n.result
           /\ Advance(NoFault)
    /\ UNCHANGED <<index, newBlock, addressToken, subToken, hdls, results>>

UKStep ==
    /\ pc = "uk" /\ pos <= Len(lines)
    /\ result' = UKLine(result, lines[pos])
    /\ Advance(NoFault)
    /\ UNCHANGED <<token, index, newBlock, addressToken, subToken, prefixToken, hdls,
                   results>>

KRStep ==
    /\ pc = "kr" /\ pos <= Len(lines)
    /\ result' = KRLine(result, lines[pos])
    /\ Advance(NoFault)
    /\ UNCHANGED <<token, index, newBlock, addressToken, subToken, prefixToken, hdls,
                   results>>

\* return result: the loop of a single-loop transformer is over
Return ==
    /\ pc \in Loops /\ pos > Len(lines)
    /\ pc' = "done"
    /\ UNCHANGED <<input, dialect, lines, pos, token, index, result, newBlock,
                   addressToken, subToken, prefixToken, hdls, results, fault, earlier>>

\* Prepare is called once more on the same text after it returned: the locals
\* of the call that is over are garbage the new call may or may not see
Again ==
    /\ pc = "done" /\ earlier = <<>>
    /\ pc' = "start"
    /\ earlier' = <<result>>
    /\ UNCHANGED <<input, dialect, lines, pos, token, index, result, newBlock,
                   addressToken, subToken, prefixToken, hdls, results, fault>>

(***************************************************************************)
(* The inputs of the model: WHOIS texts made of a domain line and up to a  *)
(* bounded number of lines drawn from a pool of lines of one registry.     *)
(***************************************************************************)
\* "K: w1 w2 ..."
KV(k, ws) == k \o ColonSp \o Sp(ws)

\* "Domain Name: example.<tld>"
DomainLine(tld) == KV(Sp(<<"Domain", "Name">>), <<"example">>) \o <<".", tld>>

\* the sequences of at most n lines of a pool
Bodies(pool, n) == UNION {[1..k -> pool] : k \in 0..n}

\* the texts of a head line followed by a body
Texts(heads, pool, n) == {Join(<<h>> \o b, NL) : h \in heads, b \in Bodies(pool, n)}

Blank == <<>>
Content == Sp(<<"Example", "University">>)

EDUBlockPool == {EDURegistrant, Content, Blank}
EDUPool == {EDURegistrant, EDUAdmin, Content, <<"\t">> \o Sp(<<"123", "Main", "St">>) \o <<"\r">>,
            KV(<<"Phone">>, <<"123">>), <<"Other", ":">>, Blank}

TWBlockPool == {TWContact, Content, Blank}
TWPool == {TWRegistrant, TWContact, Content,
           Sp(<<"John", "Smith">>) \o <<" ", " ", "john", "@", "example", ".", "tw">>,
           KV(<<"Tel">>, <<"123">>), RecordCreated \o <<" ", "2020">>, Blank}

INTPool == {KV(<<"contact">>, <<"administrative">>), KV(<<"contact">>, <<"technical">>),
            KV(<<"organisation">>, <<"ICANN">>),
            KV(<<"name">>, <<"John", "Smith">>), KV(<<"changed">>, <<"2020">>) \o <<":", "1">>,
            Sp(<<"Main", "St">>), Blank}

MOPool == {MORegistrant, MOAdmin, Content, <<"-", "-", "-">>,
           RecordExpires \o <<" ", "2020">>, Blank}

HKNamePool == {HKRegistrant, KV(Sp(<<"Given", "name">>), <<"John">>),
               KV(HKFamilyName, <<"Smith">>), KV(HKFamilyName, <<".">>),
               HKFamilyName \o Colon, Blank, SP}
HKAddressPool == {HKAdmin, KV(<<"Address">>, <<"1", "Road">>), <<"Kowloon">>,
                  KV(Sp(<<"Expiry", "Date">>), <<"2020">>), Blank, SP}
HKFieldPool == {HKTech, <<"Company", " ", "Name", " ", "(", "x", ")", ":", " ", "Acme">>,
                KV(HKRegistrarContact, <<"Email">>) \o <<":", " ", "a", "@", "b", " ",
                    "Hotline", ":", " ", "123">>,
                KV(HKRegistrarContact, <<"none">>), HKNameServers, SP}

CHPool == {CHHolder, CHTechnical,
           <<"Acme", " ", "AG", ",", " ", "Jane", " ", "Doe", ",", " ", "Main", " ",
             "Street", " ", "1">>,
           <<"A", ",", " ", "B", ",", " ", "C", ",", " ", "D">>,
           <<"HOLDER", " ", "X", ",", " ", "Y">>, <<"Registrar">>, Blank}

ITPool == {<<"Registrant">>, KV(<<"Organization">>, <<"Acme">>),
           KV(<<"Address">>, <<"1", "Road">>), <<"Rome">>,
           <<"*", " ", "note", ":", " ", "x">>, Blank}

FRRolePool == {KV(<<"admin", "-", "c">>, <<"H1">>), KV(<<"tech", "-", "c">>, <<"H1">>),
               KV(FRHdlToken, <<"H1">>), KV(FRHdlToken, <<"H2">>),
               KV(<<"phone">>, <<"1">>), Blank}
FRPool == {KV(FRRegToken, <<"Gandi">>), FRRegToken, <<"holder", "-", "c">>,
           KV(<<"holder", "-", "c">>, <<"H2">>), KV(FRDsToken, <<"1">>), FRDsToken,
           FRHdlToken, Blank}

RUPool == {KV(<<"person">>, <<"John", "Smith">>),
           <<"e", "-", "mail", ":", " ", "j", "@", "example", ".", "com">>,
           <<"org", ":", " ", "Acme", ":", " ", "Moscow">>,
           KV(<<"created">>, <<"2020">>), Sp(<<"no", "colon">>),
           <<" ", "person", " ", ":", "X", " ">>, Blank}

UKUrl == <<"URL", ":", " ", "http", ":", "/", "/", "example", ".", "co", ".", "uk">>
UKPool == {UKUrl, KV(<<"Registrar">>, <<"Acme">>), Sp(<<"no", "colon">>),
           <<" ", "URL", " ", ":", "x">>, Blank}

KRPool == {KREnglish, <<"AC", " ", "E", "-", "Mail", ":", " ", "mailto", ":", "a", "@", "b">>,
           KV(KRAdminContact, <<"Kim">>), <<"-", " ", "note">>, <<"'", "KISA">>,
           KV(<<"Registrant">>, <<"Acme">>), Blank}

JPPool == {<<"[", "Contact", " ", "Information", "]">>,
           <<"[", "Name", "]", " ", " ", "Taro">>,
           <<"[", "Postal", " ", "Address", "]", " ", "1", " ", "Road">>,
           <<"Tokyo">>, KV(<<"a">>, <<"b">>), Blank}

\* texts no transformer is chosen for
PlainPool == {KV(<<"Registrar">>, <<"Acme">>), <<"\t", "indented", "\r">>,
              <<" ", "a", "\r", "b", "\t">>, DomainLine("com"), Blank}
PlainHeads == {KV(<<"Status">>, <<"ok">>), DomainLine("COM"),
               <<"Domain", " ", "example", ".", "123">>}

\* domain lines of .uk names, as registries write them
UKHeads == {KV(Sp(<<"Domain", "name">>), <<"example">>) \o <<".", "co", ".", "uk">>,
            <<"Domain", ":", " ", "a", "-", "b", ".", "uk">>,
            <<"Domain", " ", "name", ":", "\n", " ", "example", ".", "uk">>,
            <<"[", "Domain", " ", "Name", "]", " ", "EXAMPLE", ".", "uk">>,
            <<"domain", " ", "name", ".", "uk">>,
            <<"Domain", ":", " ", "example", "\r", ".", "uk">>}

\* a short pool for the texts that only vary the domain line
ShortPool == {KV(<<"phone">>, <<"1">>), UKUrl, Blank}

FRHead(tld) == KV(<<"domain">>, <<"example">>) \o <<".", tld>>
RUHead(tld) == KV(<<"domain">>, <<"EXAMPLE">>) \o <<".", tld>>

Inputs ==
    Texts({DomainLine("edu")}, EDUBlockPool, MaxBlock)
    \cup Texts({DomainLine("EDU")}, EDUPool, MaxLines)
    \cup Texts({DomainLine("tw")}, TWBlockPool, MaxBlock)
    \cup Texts({DomainLine("tw")}, TWPool, MaxLines)
    \cup Texts({DomainLine("int")}, INTPool, MaxLines)
    \cup Texts({DomainLine("mo")}, MOPool, MaxLines)
    \cup Texts({DomainLine("hk")}, HKNamePool, MaxLines)
    \cup Texts({DomainLine("hk")}, HKAddressPool, MaxLines)
    \cup Texts({DomainLine("hk")}, HKFieldPool, MaxLines)
    \cup Texts({Sp(<<"Domain", "name">>) \o NL \o <<"example", ".", "ch">>}, CHPool, MaxLines)
    \cup Texts({DomainLine("it")}, ITPool, MaxLines)
    \cup Texts({FRHead("fr")}, FRRolePool, MaxRoles)
    \cup Texts({FRHead("fr")}, FRPool, MaxLines)
    \cup Texts({FRHead("re"), FRHead("tf"), FRHead("yt"), FRHead("pm"), FRHead("wf")},
               ShortPool, MaxLines)
    \cup Texts({RUHead("RU")}, RUPool, MaxLines)
    \cup Texts({RUHead("SU")}, ShortPool, MaxLines)
    \cup Texts({<<"[", "Domain", " ", "Name", "]", " ", " ", "EXAMPLE", ".", "JP">>},
               JPPool, MaxLines)
    \cup Texts({DomainLine("UK")}, UKPool, MaxLines)
    \cup Texts(UKHeads, ShortPool, MaxLines)
    \cup Texts({DomainLine("kr")}, KRPool, MaxLines)
    \cup Texts(PlainHeads, PlainPool, MaxLines)

(***************************************************************************)
(* The specification.                                                      *)
(***************************************************************************)
Init ==
    /\ input \in Inputs
    /\ pc = "start"
    /\ dialect = <<>>
    /\ lines = <<>>
    /\ pos = 1
    /\ token = <<>>
    /\ index = 0
    /\ result = <<>>
    /\ newBlock = FALSE
    /\ addressToken = FALSE
    /\ subToken = <<>>
    /\ prefixToken = <<>>
    /\ hdls = [k \in {} |-> <<>>]
    /\ results = <<>>
    /\ fault = NoFault
    /\ earlier = <<>>

Next ==
    \/ Prepare
    \/ EDUStep
    \/ INTStep
    \/ MOStep
    \/ HKStep
    \/ TWStep
    \/ CHStep
    \/ CHSecondLoop
    \/ CHSplitStep
    \/ CHReturn
    \/ ITStep
    \/ FRStep
    \/ RUStep
    \/ JPStep
    \/ UKStep
    \/ KRStep
    \/ Return

Spec == Init /\ [][Next]_vars

\* the same, Prepare being called a second time on the text
NextRepeated ==
    \/ Next
    \/ Again

Repeated == Init /\ [][NextRepeated]_vars

(***************************************************************************)
(* The claims.                                                             *)
(***************************************************************************)
\* the text the loops and searchDomain see
Text == PrePass(input)

\* the lines of the result
ResultLines == Split(result, NL)

\* C1: Prepare never fails on a line with no colon: no transformer ends in
\* the panic of reading vs[1] of a line that strings.Split left in one piece,
\* not even prepareFR on a line that is just registrar, holder-c, admin-c,
\* tech-c, dsl-id or nic-hdl.
C1_NoColonNeverFails == ~(pc = "panic" /\ fault = ColonFault)

\* C2: in prepareEDU and prepareTW the cursor is below the length of the
\* active section's schema whenever it picks a field name: a section that
\* receives more content lines than its schema has fields does not end the
\* run.
C2_CursorWithinSchema == ~(pc = "panic" /\ fault = IndexFault)

\* C3: when searchDomain finds no domain name, or the label it finds has no
\* case in the switch, Prepare returns the input with every carriage return
\* removed and every tab replaced by one space, and nothing else changed.
C3_PassThrough ==
    (pc = "done" /\ Transformer(dialect) = "none") =>
        LET kept == SelectSeq(input, LAMBDA c : c # "\r")
        IN  result = [i \in 1..Len(kept) |-> IF kept[i] = "\t" THEN " " ELSE kept[i]]

\* C3 happens: a text of an unsupported label (.com) with a carriage return
\* and a tab in it has been returned
C3_Witness ==
    /\ pc = "done"
    /\ dialect = <<"com">>
    /\ \E i, j \in 1..Len(input) : input[i] = "\r" /\ input[j] = "\t"
    /\ Len(result) = Len(input) - 1

\* the last label of the dotted name whose second label stands at position i
RECURSIVE LastLabel(_, _)
LastLabel(s, i) ==
    IF i + 2 <= Len(s) /\ s[i + 1] = "." /\ s[i + 2] \notin Punct
    THEN LastLabel(s, i + 2)
    ELSE i

\* C4: the label the switch of Prepare takes is the top-level-domain label,
\* the last dot-separated label, of the first domain name matched, in lower
\* case: uk for "Domain name: example.co.uk".
C4_LabelIsTopLevelDomain ==
    (pc # "start" /\ DomainMatch(Text) # 0) =>
        dialect = ToLower(<<Text[LastLabel(Text, DomainMatch(Text))]>>)

\* C5: in prepareCH a Holder (Technical contact) token line followed by a
\* line "O, N, S, ..." is rewritten into three lines in this order:
\* organization O, name N, street S with the surplus segments.
C5_HolderSplitsInOrder ==
    (pc = "done" /\ dialect = <<"ch">>) =>
        LET ls == Split(Text, NL)
        IN  \A i \in 1..(Len(ls) - 1) :
                LET t == TrimSpace(ls[i])
                    vv == Split(TrimSpace(ls[i + 1]), CommaSp)
                    ss == CHSplits(t)
                IN  (t \in {CHHolder, CHTechnical} /\ Len(vv) >= 3) =>
                        \E j \in 1..(Len(ResultLines) - 2) :
                            /\ ResultLines[j] = ss[1] \o ColonSp \o vv[1]
                            /\ ResultLines[j + 1] = ss[2] \o ColonSp \o vv[2]
                            /\ HasPrefix(ResultLines[j + 2], ss[3] \o ColonSp \o vv[3])

\* a loop iteration of transformer tr is taken and the loop goes on
Iterates(tr) == pc = tr /\ pos <= Len(lines) /\ pc' = tr /\ pos' = pos + 1

\* the trimmed text before the first colon of v, v itself when it has none
KeyOf(v) == IF Contains(v, Colon) THEN TrimSpace(SubSeq(v, 1, Index(v, Colon) - 1)) ELSE v

\* the text after the first colon of v
AfterColon(v) == From(v, Index(v, Colon))

\* the text of r before its first colon, r itself when it has none
UpToColon(r) == IF Contains(r, Colon) THEN SubSeq(r, 1, Index(r, Colon) - 1) ELSE r

C6Table(tr) == IF tr = "ru" THEN RUKeys ELSE UKKeys
C6Label(tr, key) == IF tr = "ru" THEN RULabel(key) ELSE UKLabel(key)

\* the lines prepareRU and prepareUK emit something for
C6Kept(tr, ls) ==
    SelectSeq(ls, LAMBDA l : TrimSpace(l) # <<>> /\ (tr = "uk" \/ Contains(l, Colon)))

\* the line the claim expects for l: the mapped label, a colon, one space and
\* the value
C6Claimed(tr, l) ==
    LET v == TrimSpace(l)
    IN  IF Contains(v, Colon) /\ KeyOf(v) \in C6Table(tr)
        THEN C6Label(tr, KeyOf(v)) \o ColonSp \o TrimSpace(AfterColon(v))
        ELSE v

C6Emitted(tr, l) ==
    LET v == TrimSpace(l)
    IN  IF Contains(v, Colon) /\ KeyOf(v) \in C6Table(tr)
        THEN C6Label(tr, KeyOf(v)) \o ColonSp \o AfterColon(v)
        ELSE v

\* no rewritten line of a RU text holds a colon in its value
C6SingleColon(tr, ls) ==
    \A i \in 1..Len(ls) :
        LET v == TrimSpace(ls[i])
        IN  (tr = "ru" /\ Contains(v, Colon) /\ KeyOf(v) \in RUKeys) =>
                ~Contains(AfterColon(v), Colon)

RECURSIVE C6Output(_, _)
C6Output(tr, ls) ==
    IF ls = <<>> THEN <<>>
    ELSE (IF tr = "ru" THEN C6Emitted(tr, ls[1]) \o NL ELSE NL \o C6Emitted(tr, ls[1]))
             \o C6Output(tr, Tail(ls))

C7_RolePrefixPersists ==
    [][Iterates("fr") =>
        LET v == TrimSpace(lines[pos])
            key == KeyOf(v)
            val == TrimSpace(UpToColon(AfterColon(v)))
            roles == {k \in DOMAIN hdls : hdls[k] = val}
            matching == key = FRHdlToken /\ Contains(v, Colon) /\ roles # {}
            registrar == newBlock /\ key = FRRegToken
        IN  IF v = <<>> THEN token' = token /\ result' = result
            ELSE /\ key \in FRRoleKeys =>
                        /\ key[1] \in DOMAIN hdls'
                        /\ hdls'[key[1]] = val
                 /\ matching =>
                        /\ \E k \in roles : token' = <<k, " ">>
                        /\ result' = result \o NL \o token' \o v
                 /\ (~matching /\ ~registrar) => token' = token
                 /\ registrar => token' = FRRegToken \o SP
                 /\ HasPrefix(result', result \o NL \o token'
                                          \o (IF registrar THEN <<"name">> ELSE v))
      ]_vars

\* C7 happens: admin-c recorded H1, nic-hdl: H1 matched it, and a line after
\* a blank line has been emitted behind "admin "
C7_Witness ==
    /\ dialect = <<"fr">>
    /\ pos > 3
    /\ TrimSpace(lines[pos - 3]) = KV(FRHdlToken, <<"H1">>)
    /\ lines[pos - 2] = Blank
    /\ token = <<"admin", " ">>
    /\ HasSuffix(result, NL \o <<"admin", " ">> \o KV(FRHdlToken, <<"H1">>)
                            \o NL \o <<"admin", " ">> \o KV(<<"phone">>, <<"1">>))

\* C8: in prepareHK a Family name line adds no output line: a value other
\* than "" and "." is appended after one space to the output as it stands
\* (the end of the line emitted last), and with "" or "." the output is left
\* as it was.
C8_FamilyNameJoins ==
    [][Iterates("hk") =>
        LET v == TrimSpace(lines[pos])
            vv == TrimSpace(AfterColon(v))
        IN  (Contains(v, Colon) /\ KeyOf(v) = HKFamilyName) =>
                result' = IF vv \in {<<>>, <<".">>} THEN result ELSE result \o SP \o vv
      ]_vars

\* C8 happens: "Family name: Smith" has been joined to the Given name line
C8_Witness ==
    /\ dialect = <<"hk">>
    /\ pos > 1
    /\ lines[pos - 1] = KV(HKFamilyName, <<"Smith">>)
    /\ HasSuffix(result, NL \o <<"Registrant", " ">>
                            \o KV(Sp(<<"Given", "name">>), <<"John">>) \o <<" ", "Smith">>)

C9Tokens(tr) == IF tr = "edu" THEN EDUTokens ELSE TWTokens

\* the line as the loop of prepareEDU or prepareTW sees it
C9Seen(tr, l) == IF tr = "edu" THEN TrimSpace(l) ELSE DateColon(TrimSpace(l))

\* the line resets token and cursor
C9Resets(tr, v) == IF tr = "edu" THEN HasSuffix(v, Colon) ELSE Contains(v, Colon)

\* the section name a header is shown as
C9Section(tr, h) ==
    IF tr = "tw" /\ h = TWContact THEN Sp(<<"Registrant", "Contact">>)
    ELSE SubSeq(h, 1, Len(h) - 1)

\* the k-th schema field of a header, as the list of its names
C9Field(tr, h, k) == IF tr = "edu" THEN <<EDUSchema(h)[k]>> ELSE TWSchema(h)[k]

\* C9: in prepareEDU and prepareTW the k-th content line after a section
\* header, no reset in between, is emitted as "<Section> <k-th field>: <line>"
\* (TW: Contact shown as Registrant Contact; under a Name,Email field a Name
\* line and, when the line ends in an address, an Email line).
C9_KthLineKthField ==
    [][(Iterates("edu") \/ Iterates("tw")) =>
        LET v == C9Seen(pc, lines[pos])
            hs == {j \in 1..(pos - 1) : C9Seen(pc, lines[j]) \in C9Tokens(pc)}
            h == CHOOSE j \in hs : \A i \in hs : i <= j
            since == {j \in (h + 1)..pos : C9Seen(pc, lines[j]) # <<>>}
            k == Cardinality(since)
            sect == C9Section(pc, C9Seen(pc, lines[h]))
            field == C9Field(pc, C9Seen(pc, lines[h]), k)
            m == TWNameEmailMatch(v)
        IN  (/\ v # <<>>
             /\ hs # {}
             /\ \A j \in since : ~C9Resets(pc, C9Seen(pc, lines[j]))) =>
                IF Len(field) = 1
                THEN result' = result \o NL \o sect \o SP \o field \o ColonSp \o v
                ELSE IF m.ok
                THEN result' = result \o NL \o sect \o <<" ", "Name", ":", " ">>
                                      \o TrimSpace(m.m1)
                                      \o NL \o sect \o <<" ", "Email", ":", " ">> \o m.m2
                ELSE result' = result \o NL \o sect \o <<" ", "Name", ":", " ">> \o v
      ]_vars

\* C9 happens: the EDU text of the claim, after its domain line, has been
\* rewritten
C9_Witness ==
    /\ pc = "done"
    /\ result = NL \o DomainLine("EDU")
                  \o NL \o KV(Sp(<<"Registrant", "Organization">>), <<"Example", "University">>)
                  \o NL \o KV(Sp(<<"Registrant", "Address">>), <<"123", "Main", "St">>)

\* the transformers that keep a section token
C10Keepers == {"edu", "tw", "mo", "int", "hk"}

\* C10 as claimed: in EDU, TW, MO, INT and HK a blank line clears the token.
C10_BlankClearsToken ==
    (pc \in C10Keepers /\ pos > 1 /\ TrimSpace(lines[pos - 1]) = <<>>) => token = <<>>

\* the labels a transformer puts before a line
C10Labels(tr) ==
    CASE tr = "mo" -> {<<"Registrant">>, <<"Admin">>, <<"Billing">>, <<"Technical">>}
      [] tr = "hk" -> {<<"Registrant">>, <<"Admin">>, <<"Technical">>,
                       Sp(<<"Name", "Servers">>) \o Colon}
      [] OTHER -> {<<"registrant">>, <<"administrative">>, <<"technical">>}

\* the line sets the token: a section header, or in INT a contact or
\* organisation line
C10SetsToken(tr, v) ==
    CASE tr = "mo" -> v \in MOTokens
      [] tr = "hk" -> v \in HKTokens
      [] OTHER -> KeyOf(v) \in {<<"contact">>, <<"organisation">>}

\* C10, amended: in MO and INT every blank line, and in HK every blank line
\* left after each doubled newline was replaced by a single one, clears the
\* token and emits nothing, and the first content line after it that does not
\* itself set the token is emitted without a label before it; in EDU and TW
\* a blank line leaves token, cursor and output as they were.
C10_BlankLineAndToken ==
    [][(\E tr \in C10Keepers : Iterates(tr)) =>
        LET v == TrimSpace(lines[pos])
            afterBlank == pos > 1 /\ TrimSpace(lines[pos - 1]) = <<>>
        IN  /\ (v = <<>> /\ pc \in {"mo", "int", "hk"}) =>
                    token' = <<>> /\ result' = result
            /\ (v = <<>> /\ pc \in {"edu", "tw"}) =>
                    token' = token /\ index' = index /\ result' = result
            /\ (/\ v # <<>>
                /\ afterBlank
                /\ pc \in {"mo", "int", "hk"}
                /\ ~C10SetsToken(pc, v)) =>
                    /\ token' = <<>>
                    /\ \A l \in C10Labels(pc) :
                           ~HasPrefix(From(result', Len(result)), NL \o l \o SP)
                    /\ (pc = "int" \/ (pc = "mo" /\ v[1] # "-" /\ v = DateColon(v))) =>
                           result' = result \o NL \o v
      ]_vars

\* C10 happens: in MO, after Registrant: and a blank line, a content line has
\* been emitted as it stands
C10_Witness ==
    /\ dialect = <<"mo">>
    /\ pos > 3
    /\ lines[pos - 3] = MORegistrant
    /\ lines[pos - 2] = Blank
    /\ lines[pos - 1] = Content
    /\ token = <<>>
    /\ HasSuffix(result, NL \o MORegistrant \o NL \o Content)

\* the line the running loop takes, trimmed
Line == TrimSpace(lines[pos])

\* the section headers of a block transformer
C11Headers(tr) ==
    CASE tr = "edu" -> EDUTokens
      [] tr = "tw" -> TWTokens
      [] OTHER -> MOTokens

\* the section a header of prepareMO stands for
C11Section(v) ==
    CASE v = MORegistrant -> <<"Registrant">>
      [] v = MOAdmin -> <<"Admin">>
      [] v = MOBilling -> <<"Billing">>
      [] OTHER -> <<"Technical">>

\* C11 as claimed: in prepareEDU, prepareTW and prepareMO a line that equals
\* a section header produces no output line of its own.
C11_HeaderEmitsNothing ==
    [][(\E tr \in {"edu", "tw", "mo"} : Iterates(tr) /\ Line \in C11Headers(tr)) =>
        result' = result
      ]_vars

\* C11, amended: a line that equals a section header sets the active
\* section; in prepareEDU and prepareTW the cursor goes to the section's
\* first field and nothing is emitted; in prepareMO the header is itself
\* emitted as a line, unchanged and without a label.
C11_HeaderSetsSection ==
    [][(\E tr \in {"edu", "tw", "mo"} : Iterates(tr) /\ Line \in C11Headers(tr)) =>
        /\ pc = "edu" => token' = Line /\ index' = 0 /\ result' = result
        /\ pc = "tw" => token' = Line /\ index' = -1 /\ result' = result
        /\ pc = "mo" => token' = C11Section(Line) /\ result' = result \o NL \o Line
      ]_vars

\* C11 happens: in MO, under the Registrant section, the header of the Admin
\* section has been taken
C11_Witness ==
    /\ pc = "mo"
    /\ pos > 2
    /\ lines[pos - 2] = MORegistrant
    /\ lines[pos - 1] = MOAdmin
    /\ token = <<"Admin">>
    /\ HasSuffix(result, NL \o MORegistrant \o NL \o MOAdmin)

\* C12: in prepareFR a recorded role-to-handle entry is consumed by at most
\* one nic-hdl line: a nic-hdl line whose handle is recorded takes one role
\* that recorded it, removes that entry and leaves every other entry as it
\* was; a nic-hdl line whose handle is not (or no longer) recorded selects no
\* role and changes no entry; no other line removes an entry.  So of two
\* roles that recorded H, the first nic-hdl: H takes one and the second the
\* other.
C12_HandleConsumedOnce ==
    [][(Iterates("fr") /\ Line # <<>>) =>
        LET key == KeyOf(Line)
            val == TrimSpace(UpToColon(AfterColon(Line)))
            roles == {k \in DOMAIN hdls : hdls[k] = val}
        IN  IF key = FRHdlToken /\ Contains(Line, Colon)
            THEN IF roles = {}
                 THEN hdls' = hdls /\ token' = token
                 ELSE \E k \in roles :
                          /\ token' = <<k, " ">>
                          /\ DOMAIN hdls' = DOMAIN hdls \ {k}
                          /\ \A j \in DOMAIN hdls' : hdls'[j] = hdls[j]
            ELSE DOMAIN hdls \subseteq DOMAIN hdls'
      ]_vars

\* C12 happens: admin-c and tech-c both recorded H1, the first nic-hdl: H1
\* took admin and the second took tech; no entry is left
C12_Witness ==
    /\ pc = "fr"
    /\ pos > 4
    /\ lines[pos - 4] = KV(<<"admin", "-", "c">>, <<"H1">>)
    /\ lines[pos - 3] = KV(<<"tech", "-", "c">>, <<"H1">>)
    /\ lines[pos - 2] = KV(FRHdlToken, <<"H1">>)
    /\ lines[pos - 1] = KV(FRHdlToken, <<"H1">>)
    /\ DOMAIN hdls = {}
    /\ HasSuffix(result, NL \o <<"admin", " ">> \o KV(FRHdlToken, <<"H1">>)
                            \o NL \o <<"tech", " ">> \o KV(FRHdlToken, <<"H1">>))

\* C13: in prepareHK the joining of colon-free lines to an Address line ends
\* at a blank line: a colon-free line that comes after a blank line is not
\* joined with ", " to the output but emitted as a line of its own.
C13_BlankEndsAddress ==
    [][(/\ Iterates("hk")
        /\ Line # <<>>
        /\ ~Contains(Line, Colon)
        /\ pos > 1
        /\ TrimSpace(lines[pos - 1]) = <<>>) =>
            /\ result' # result \o CommaSp \o Line
            /\ HasPrefix(result', result \o NL)
      ]_vars

\* C14 as claimed: in prepareEDU and prepareTW a line that is no header and
\* does not end in a colon leaves the active section as it is and is emitted
\* with the section's next schema label, also when it holds a colon elsewhere.
C14_OnlyTrailingColonResets ==
    [][((Iterates("edu") \/ Iterates("tw"))
        /\ Line # <<>>
        /\ Line \notin C9Tokens(pc)
        /\ token # <<>>
        /\ ~HasSuffix(Line, Colon)) =>
            /\ token' = token
            /\ index' = index + 1
            /\ HasPrefix(result', result \o NL \o C9Section(pc, token) \o SP)
      ]_vars

\* C14, amended: a line that is no header ends the active section, puts the
\* cursor back and is emitted as it stands, in prepareEDU when it ends in a
\* colon, in prepareTW when it holds a colon anywhere (the colon put after
\* "Record created on" and "Record expires on" counts); every other content
\* line leaves the section as it is and, under a section, takes the cursor
\* one field on and is emitted behind the section's name.
C14_ColonResets ==
    [][((Iterates("edu") \/ Iterates("tw"))
        /\ Line # <<>>
        /\ C9Seen(pc, Line) \notin C9Tokens(pc)) =>
            LET v == C9Seen(pc, Line)
            IN  IF C9Resets(pc, v)
                THEN /\ token' = <<>>
                     /\ index' = (IF pc = "edu" THEN 0 ELSE -1)
                     /\ result' = result \o NL \o v
                ELSE /\ token' = token
                     /\ token = <<>> => index' = index /\ result' = result \o NL \o v
                     /\ token # <<>> =>
                            /\ index' = index + 1
                            /\ HasPrefix(result',
                                         result \o NL \o C9Section(pc, token) \o SP)
      ]_vars

\* C14 happens: in TW, under the Registrant section, the line Tel: 123 has
\* ended the section and been emitted as it stands
C14_Witness ==
    /\ pc = "tw"
    /\ pos > 2
    /\ lines[pos - 2] = TWRegistrant
    /\ lines[pos - 1] = KV(<<"Tel">>, <<"123">>)
    /\ token = <<>>
    /\ index = -1
    /\ HasSuffix(result, NL \o KV(<<"Tel">>, <<"123">>))

\* the contact line met last among lines 1..n of the loop with no blank line
\* after it, 0 when there is none
C15Contact(n) ==
    LET cs == {j \in 1..n :
                  /\ Contains(lines[j], Colon)
                  /\ KeyOf(TrimSpace(lines[j])) = <<"contact">>
                  /\ \A i \in j..n : TrimSpace(lines[i]) # <<>>}
    IN  IF cs = {} THEN 0 ELSE CHOOSE j \in cs : \A i \in cs : i <= j

\* C15 as claimed: in prepareINT, after a line "contact: R" every following
\* line that holds a colon is emitted as "R <line>" until the next blank line.
C15_ContactPrefixUntilBlank ==
    [][(/\ Iterates("int")
        /\ Contains(Line, Colon)
        /\ C15Contact(pos - 1) # 0) =>
            result' = result \o NL
                        \o TrimSpace(UpToColon(AfterColon(TrimSpace(lines[C15Contact(pos - 1)]))))
                        \o SP \o Line
      ]_vars

\* the role in force after the first n lines of the loop of prepareINT: none
\* after a blank line, R after "contact: R", registrant after an organisation
\* line met while there was none
RECURSIVE C15Role(_)
C15Role(n) ==
    IF n = 0 THEN <<>>
    ELSE LET v == TrimSpace(lines[n])
         IN  IF v = <<>> THEN <<>>
             ELSE IF ~Contains(v, Colon) THEN C15Role(n - 1)
             ELSE IF KeyOf(v) = <<"contact">> THEN TrimSpace(UpToColon(AfterColon(v)))
             ELSE IF KeyOf(v) = <<"organisation">> /\ C15Role(n - 1) = <<>>
             THEN <<"registrant">>
             ELSE C15Role(n - 1)

\* C15, amended: in prepareINT a line "contact: R" sets the role to R and is
\* itself emitted as it stands; every following line that holds a colon and is
\* no contact line is emitted as "R <line>" until the next blank line or
\* contact line; after a blank line there is no role and lines are emitted
\* as they stand; an organisation line met while there is no role sets the
\* role to registrant and is emitted as "registrant <line>", one met under a
\* role leaves the role as it is; a line without a colon is emitted as it
\* stands.
C15_RolePrefix ==
    [][Iterates("int") =>
        LET r == C15Role(pos - 1)
            r1 == C15Role(pos)
        IN  /\ token = r /\ token' = r1
            /\ Line = <<>> => result' = result /\ r1 = <<>>
            /\ (Line # <<>> /\ ~Contains(Line, Colon)) =>
                    result' = result \o NL \o Line /\ r1 = r
            /\ (Contains(Line, Colon) /\ KeyOf(Line) = <<"contact">>) =>
                    result' = result \o NL \o Line
            /\ (Contains(Line, Colon) /\ KeyOf(Line) # <<"contact">>) =>
                    /\ result' = result \o NL \o (IF r1 # <<>> THEN r1 \o SP ELSE <<>>) \o Line
                    /\ r # <<>> => r1 = r
                    /\ (r = <<>> /\ KeyOf(Line) # <<"organisation">>) => r1 = <<>>
      ]_vars

\* C15 happens: after contact: administrative an organisation line and a
\* name line have been emitted behind "administrative"
C15_Witness ==
    /\ pc = "int"
    /\ pos > 3
    /\ lines[pos - 3] = KV(<<"contact">>, <<"administrative">>)
    /\ lines[pos - 2] = KV(<<"organisation">>, <<"ICANN">>)
    /\ lines[pos - 1] = KV(<<"name">>, <<"John", "Smith">>)
    /\ token = <<"administrative">>
    /\ HasSuffix(result, NL \o KV(<<"contact">>, <<"administrative">>)
                            \o NL \o <<"administrative", " ">>
                            \o KV(<<"organisation">>, <<"ICANN">>)
                            \o NL \o <<"administrative", " ">>
                            \o KV(<<"name">>, <<"John", "Smith">>))

C16Table(tr) == IF tr = "kr" THEN KRKeys ELSE C6Table(tr)
C16Label(tr, key) == IF tr = "kr" THEN KRLabel(key) ELSE C6Label(tr, key)

\* what an iteration has put behind the output and the given head, trimmed
C16Tail(head) == TrimSpace(From(result', Len(result) + Len(head)))

\* C16: in prepareRU, prepareUK and prepareKR a line whose key is in the
\* table is emitted as the mapped label, a colon and the whole text after the
\* line's first colon, further colons included; a line with a colon whose key
\* is not in the table is emitted with key and value as they stood.
C16_WholeValueKept ==
    [][((Iterates("ru") \/ Iterates("uk") \/ Iterates("kr"))
        /\ Contains(Line, Colon)
        /\ Line[1] \notin {"'", "-"}) =>
            LET head == (IF pc = "ru" THEN <<>> ELSE NL)
                            \o (IF KeyOf(Line) \in C16Table(pc)
                                THEN C16Label(pc, KeyOf(Line)) \o Colon
                                ELSE <<>>)
            IN  /\ HasPrefix(result', result \o head)
                /\ C16Tail(head) = (IF KeyOf(Line) \in C16Table(pc)
                                    THEN TrimSpace(AfterColon(Line))
                                    ELSE Line)
      ]_vars

\* C17: in prepareJP the prefix "admin " is applied only inside the Contact
\* Information block: no line before the marker is prefixed, and a labelled
\* line of another section, met after the block was closed by a blank line,
\* is emitted as it stands.
C17_AdminPrefixOnlyInBlock ==
    [][(Iterates("jp") /\ Line # <<>>) =>
        LET marks == {j \in 1..pos : KeyOf(TrimSpace(lines[j])) = JPAdminToken
                                       /\ Contains(lines[j], Colon)}
            closed == \E j \in marks : \E i \in (j + 1)..(pos - 1) :
                          TrimSpace(lines[i]) = <<>>
        IN  /\ marks = {} => ~HasPrefix(From(result', Len(result)), NL \o <<"admin", " ">>)
            /\ (/\ closed
                /\ Contains(Line, Colon)
                /\ KeyOf(Line) # JPAdminToken) => result' = result \o NL \o Line
      ]_vars

====
